---------------------------- MODULE Spec2Model ----------------------------
(***************************************************************************)
(* wallet713: the interactive command loop of src/main.rs.                 *)
(*                                                                         *)
(* The model covers main(), welcome(), do_config(), do_contacts(),         *)
(* do_listen() and do_command().  The collaborators whose code lives in    *)
(* other modules of the crate (common::config, common::crypto, contacts,   *)
(* wallet, cli) are modelled from their documented contracts and are       *)
(* marked as such where they are defined.                                  *)
(*                                                                         *)
(* Option<T> values are sequences of length 0 (None) or 1 (Some(x)).       *)
(* Result<T> values are records with a field res: "Ok" or the name of the  *)
(* Wallet713Error variant.                                                 *)
(***************************************************************************)
EXTENDS Integers, Sequences, FiniteSets, TLC

VARIABLES
    pc,          \* position of the process: see PCs
    cfgFile,     \* persisted configuration record: None or Some(record)
    book,        \* AddressBook held by the process (contacts in insertion order)
    bookStore,   \* persisted address-book store at bookPath
    bookPath,    \* data path whose store bookStore describes
    conn,        \* relay connectivity of the wallet: "disconnected" | "connected"
    client,      \* parameters the running relay client was started with (Option)
    subscribed,  \* whether the relay client holds a subscription
    holders,     \* accessors currently holding the address-book mutex
    last         \* the command being processed by the loop iteration and its result

vars == << pc, cfgFile, book, bookStore, bookPath, conn, client, subscribed, holders, last >>

None == << >>

Some(x) == << x >>

IsSome(o) == Len(o) = 1

Unwrap(o) == o[1]

-----------------------------------------------------------------------------
(* Bounds of the model.                                                    *)

\* longest id argument enumerated character by character
MaxIdLen == 2

-----------------------------------------------------------------------------
(* Value domains.                                                          *)

DataPaths == {"d0", "d1"}

Uris == {"", "u0"}

UserKeys == {"", "K1"}

\* keys generate_keypair() can return
GenKeys == {"G1", "G2"}

Keys == UserKeys \cup GenKeys

NodeUris == {"n0", "n1"}

NodeSecrets == {None, Some("s1")}

Passwords == {None, Some("pw")}

Names == {"alice", "bob"}

PublicKeys == {"PK1", "PK2"}


-----------------------------------------------------------------------------
(* Configuration store (common::config::Wallet713Config).                  *)

ConfigRecords ==
    [ wallet713_data_path : DataPaths,
      grinbox_uri         : Uris,
      grinbox_private_key : Keys,
      grin_node_uri       : NodeUris,
      grin_node_secret    : NodeSecrets ]

\* Wallet713Config::default(): the record synthesized when none is persisted
DefaultConfig ==
    [ wallet713_data_path |-> "d0",
      grinbox_uri         |-> "u0",
      grinbox_private_key |-> "",
      grin_node_uri       |-> "n0",
      grin_node_secret    |-> None ]

\* Wallet713Config::exists()
ConfigExists(file) == IsSome(file)

\* Wallet713Config::from_file(): the persisted record, or a failure to read it
from_file(file, io) ==
    IF io = "read_fail"
    THEN [ res |-> "IoError", config |-> None ]
    ELSE [ res |-> "Ok", config |-> Some(Unwrap(file)) ]

\* Wallet713Config::to_file(): the record replaces the persisted one, or the
\* write fails and the persisted one stays
to_file(config, file, io) ==
    IF io = "write_fail"
    THEN [ res |-> "IoError", file |-> file ]
    ELSE [ res |-> "Ok", file |-> Some(config) ]

\* SecretKey::from_hex(): a secret key is a non-zero 32-byte scalar, which the
\* empty string does not encode
from_hex(key) == IF key = "" THEN "InvalidKey" ELSE "Ok"

\* the options `config` accepts; ArgMatches::new() has none of them
NoArgs ==
    [ data_path |-> None, uri |-> None, private_key |-> None,
      node_uri |-> None, node_secret |-> None, generate_keys |-> FALSE ]

\* every combination of the options
ConfigArgs ==
    [ data_path     : {None, Some("d1")},
      uri           : {None, Some(""), Some("u0")},
      private_key   : {None, Some(""), Some("K1")},
      node_uri      : {None, Some("n1")},
      node_secret   : {None, Some("s1")},
      generate_keys : BOOLEAN ]

\* the options that concern the relay: --uri, --private-key, --generate-keys
RelayArgs == { a \in ConfigArgs :
                 a.data_path = None /\ a.node_uri = None /\ a.node_secret = None }

IoOutcomes == {"ok", "read_fail", "write_fail"}

\* main.rs 52-55
SetDataPath(config, args) ==
    IF IsSome(args.data_path)
    THEN [config EXCEPT !.wallet713_data_path = Unwrap(args.data_path)]
    ELSE config

\* main.rs 57-60
SetUri(config, args) ==
    IF IsSome(args.uri)
    THEN [config EXCEPT !.grinbox_uri = Unwrap(args.uri)]
    ELSE config

\* main.rs 62-65
SetPrivateKey(config, args) ==
    IF IsSome(args.private_key)
    THEN [config EXCEPT !.grinbox_private_key = Unwrap(args.private_key)]
    ELSE config

\* --node-uri stored in the field of --uri
SetNodeUri_AsUri(config, args) ==
    IF IsSome(args.node_uri)
    THEN [config EXCEPT !.grinbox_uri = Unwrap(args.node_uri)]
    ELSE config

\* main.rs 67-70
SetNodeUri(config, args) ==
    IF IsSome(args.node_uri)
    THEN [config EXCEPT !.grin_node_uri = Unwrap(args.node_uri)]
    ELSE config

\* the secret taken from the option whether or not it is given
SetNodeSecret_Always(config, args) ==
    [config EXCEPT !.grin_node_secret = args.node_secret]

\* main.rs 72-75
SetNodeSecret(config, args) ==
    IF IsSome(args.node_secret)
    THEN [config EXCEPT !.grin_node_secret = Some(Unwrap(args.node_secret))]
    ELSE config

\* main.rs 52-75: any_matches after the five options
AnyOption(args) ==
    \/ IsSome(args.data_path)
    \/ IsSome(args.uri)
    \/ IsSome(args.private_key)
    \/ IsSome(args.node_uri)
    \/ IsSome(args.node_secret)

\* the test on `exists` without its negation
NeedsNewKeys_Exists(exists, args) == exists \/ args.generate_keys

\* main.rs 77: whether a new keypair is generated
NeedsNewKeys(exists, args) == ~exists \/ args.generate_keys

\* the generated key kept only where no key is set
SetGeneratedKey_IfUnset(config, pr) ==
    IF config.grinbox_private_key = ""
    THEN [config EXCEPT !.grinbox_private_key = pr]
    ELSE config

\* main.rs 78-79: the generated key replaces the private key
SetGeneratedKey(config, pr) == [config EXCEPT !.grinbox_private_key = pr]

\* main.rs 85: whether the record is shown to the user
ShowsConfig(any_matches, silent) == ~any_matches /\ ~silent

\* do_config(args, silent) run against the persisted `file`; `pr` is the key
\* generate_keypair() returns if it is called and `io` what the file system does.
\* Yields the result, the persisted record afterwards, the returned record,
\* whether the record was printed and whether a keypair was generated.
do_config(args, silent, file, pr, io) ==
    LET exists == ConfigExists(file)
        loaded == IF exists
                  THEN from_file(file, io)
                  ELSE IF io = "read_fail"
                       THEN [ res |-> "IoError", config |-> None ]
                       ELSE [ res |-> "Ok", config |-> Some(DefaultConfig) ]
    IN  IF loaded.res # "Ok"
        THEN [ res |-> loaded.res, file |-> file, config |-> None,
               shown |-> FALSE, generated |-> FALSE ]
        ELSE
          LET c0  == Unwrap(loaded.config)
              c5  == SetNodeSecret(SetNodeUri(SetPrivateKey(SetUri(SetDataPath(c0, args), args), args), args), args)
              gen == NeedsNewKeys(exists, args)
              c6  == IF gen THEN SetGeneratedKey(c5, pr) ELSE c5
              any_matches == IF gen THEN exists ELSE AnyOption(args)
              saved == to_file(c6, file, io)
          IN  IF saved.res # "Ok"
              THEN [ res |-> saved.res, file |-> saved.file, config |-> None,
                     shown |-> FALSE, generated |-> gen ]
              ELSE [ res |-> "Ok", file |-> saved.file, config |-> Some(c6),
                     shown |-> ShowsConfig(any_matches, silent), generated |-> gen ]

-----------------------------------------------------------------------------
(* Address book (contacts::AddressBook) behind Arc<Mutex<..>>.             *)

\* Contact::new(public_key, name)
NewContact(public_key, name) == [ name |-> name, public_key |-> public_key ]

Contacts == [ name : Names, public_key : PublicKeys ]

HasName(bk, name) == \E i \in 1..Len(bk) : bk[i].name = name

\* the books an AddressBook can hold: contacts in insertion order, names unique
Books ==
    { bk \in UNION { [1..n -> Contacts] : n \in 0..Cardinality(Names) } :
        \A i, j \in 1..Len(bk) : bk[i].name = bk[j].name => i = j }

RECURSIVE WithoutName(_, _)
WithoutName(bk, name) ==
    IF bk = << >> THEN << >>
    ELSE IF Head(bk).name = name THEN WithoutName(Tail(bk), name)
         ELSE << Head(bk) >> \o WithoutName(Tail(bk), name)

\* AddressBook::add_contact: DuplicateContact(name) when the name is present,
\* otherwise insert and persist, all or nothing
add_contact(bk, contact, io) ==
    IF HasName(bk, contact.name)
    THEN [ res |-> "DuplicateContact", err |-> << contact.name >>, book |-> bk ]
    ELSE IF io = "write_fail"
         THEN [ res |-> "StoreError", err |-> << >>, book |-> bk ]
         ELSE [ res |-> "Ok", err |-> << >>, book |-> Append(bk, contact) ]

\* AddressBook::remove_contact_by_name: ContactNotFound(name) when absent
remove_contact_by_name(bk, name, io) ==
    IF ~HasName(bk, name)
    THEN [ res |-> "ContactNotFound", err |-> << name >>, book |-> bk ]
    ELSE IF io = "write_fail"
         THEN [ res |-> "StoreError", err |-> << >>, book |-> bk ]
         ELSE [ res |-> "Ok", err |-> << >>, book |-> WithoutName(bk, name) ]

\* AddressBook::contact_iter(): the contacts in insertion order
contact_iter(bk) == bk

ContactsArgs ==
    [ sub : {"add"}, name : Names, public_key : PublicKeys ]
      \cup [ sub : {"remove"}, name : Names, public_key : {""} ]
      \cup [ sub : {"list"}, name : {""}, public_key : {""} ]

\* the result of add_contact dropped instead of returned with `?`
ContactsAdd_ErrorDropped(bk, args, io) ==
    [ add_contact(bk, NewContact(args.public_key, args.name), io)
        EXCEPT !.res = "Ok", !.err = << >> ]

\* main.rs 94-97: the `add` subcommand
ContactsAdd(bk, args, io) == add_contact(bk, NewContact(args.public_key, args.name), io)

\* the name read from the argument of the other subcommand
ContactsRemove_ByKey(bk, args, io) == remove_contact_by_name(bk, args.public_key, io)

\* main.rs 98-100: the `remove` subcommand
ContactsRemove(bk, args, io) == remove_contact_by_name(bk, args.name, io)

\* the listing without the message for an empty book
ContactsList_Silent(bk) ==
    [ res |-> "Ok", err |-> << >>, book |-> bk,
      lines |-> Len(contact_iter(bk)),
      out |-> IF Len(contact_iter(bk)) = 0 THEN "none" ELSE "contacts" ]

\* main.rs 101-113: no subcommand; one line per contact, or the empty-book message
ContactsList(bk) ==
    [ res |-> "Ok", err |-> << >>, book |-> bk,
      lines |-> Len(contact_iter(bk)),
      out |-> IF Len(contact_iter(bk)) = 0 THEN "empty_book" ELSE "contacts" ]

\* main.rs 94-114: the body of do_contacts, run while the guard is held
do_contacts_body(bk, args, io) ==
    IF args.sub = "add"
    THEN ContactsAdd(bk, args, io) @@ [ lines |-> 0, out |-> "none" ]
    ELSE IF args.sub = "remove"
         THEN ContactsRemove(bk, args, io) @@ [ lines |-> 0, out |-> "none" ]
         ELSE ContactsList(bk)

\* main.rs 93: Mutex::lock() returns once no other accessor holds the guard
CanLock(h) == h = {}

\* the guard dropped on the success path only
GuardDropped_OnSuccess(h, res) == IF res = "Ok" THEN h \ {"fg"} ELSE h

\* main.rs 97, 100, 114: the guard is dropped on every return of do_contacts
GuardDropped(h, res) == h \ {"fg"}

-----------------------------------------------------------------------------
(* Transaction ids: str::parse::<u32>().                                   *)

Digits == {"0", "1", "2", "3", "4", "5", "6", "7", "8", "9"}

DigitValue(c) ==
    CASE c = "0" -> 0 [] c = "1" -> 1 [] c = "2" -> 2 [] c = "3" -> 3 [] c = "4" -> 4
      [] c = "5" -> 5 [] c = "6" -> 6 [] c = "7" -> 7 [] c = "8" -> 8 [] c = "9" -> 9

\* Numbers wider than TLC's 32-bit integers are kept as decimal digits, most
\* significant first, without leading zeros: 7 is << "7" >>, 0 is << "0" >>.
RECURSIVE Canon(_)
Canon(ds) == IF Len(ds) > 1 /\ Head(ds) = "0" THEN Canon(Tail(ds)) ELSE ds

RECURSIVE LexLeq(_, _)
LexLeq(a, b) ==
    IF a = << >> THEN TRUE
    ELSE IF DigitValue(Head(a)) # DigitValue(Head(b))
         THEN DigitValue(Head(a)) < DigitValue(Head(b))
         ELSE LexLeq(Tail(a), Tail(b))

\* a <= b, for numbers in the form above
NumLeq(a, b) == Len(a) < Len(b) \/ (Len(a) = Len(b) /\ LexLeq(a, b))

\* u32::MAX, 4294967295
U32Max == << "4", "2", "9", "4", "9", "6", "7", "2", "9", "5" >>

Times10(n) == Canon(n \o << "0" >>)

\* n + d for a digit d, given that n ends in "0"
PlusDigit(n, d) == Canon(SubSeq(n, 1, Len(n) - 1) \o << d >>)

\* the digit loop of u32::from_str_radix: checked_mul(10) then checked_add(digit)
RECURSIVE ParseDigits(_, _)
ParseDigits(acc, cs) ==
    IF cs = << >> THEN [ ok |-> TRUE, value |-> acc ]
    ELSE IF Head(cs) \notin Digits THEN [ ok |-> FALSE, value |-> << >> ]
    ELSE IF ~NumLeq(Times10(acc), U32Max) THEN [ ok |-> FALSE, value |-> << >> ]
    ELSE IF ~NumLeq(PlusDigit(Times10(acc), Head(cs)), U32Max)
         THEN [ ok |-> FALSE, value |-> << >> ]
    ELSE ParseDigits(PlusDigit(Times10(acc), Head(cs)), Tail(cs))

\* the id parsed as a signed number: a leading "-" is skipped as well
ParseU32_Signed(cs) ==
    IF cs = << >> THEN [ ok |-> FALSE, value |-> << >> ]
    ELSE IF Len(cs) = 1 /\ Head(cs) \in {"+", "-"} THEN [ ok |-> FALSE, value |-> << >> ]
    ELSE IF Head(cs) \in {"+", "-"} THEN ParseDigits(<< "0" >>, Tail(cs))
    ELSE ParseDigits(<< "0" >>, cs)

\* main.rs 224, 232: id.parse::<u32>(): empty text and a lone sign are rejected,
\* one leading "+" is skipped, "-" is no digit of an unsigned type
ParseU32(cs) ==
    IF cs = << >> THEN [ ok |-> FALSE, value |-> << >> ]
    ELSE IF Len(cs) = 1 /\ Head(cs) \in {"+", "-"} THEN [ ok |-> FALSE, value |-> << >> ]
    ELSE IF Head(cs) = "+" THEN ParseDigits(<< "0" >>, Tail(cs))
    ELSE ParseDigits(<< "0" >>, cs)

IdAlphabet == {"7", "a", "+", "-"}

\* an id that is a number and one that is not
BasicIds == { << "7" >>, << "a", "b", "c" >> }

\* every text of up to MaxIdLen characters, and the texts around u32::MAX
IdArgs ==
    UNION { [1..n -> IdAlphabet] : n \in 1..MaxIdLen }
      \cup { << "0" >>, << "0", "0", "7" >>,
             << "4", "2", "9", "4", "9", "6", "7", "2", "9", "5" >>,
             << "4", "2", "9", "4", "9", "6", "7", "2", "9", "6" >> }

\* value_of("password").unwrap_or("")
PasswordOrEmpty(pw) == IF IsSome(pw) THEN Unwrap(pw) ELSE ""

-----------------------------------------------------------------------------
(* Amounts: grin_core::core::amount_from_hr_string.                        *)

\* GRIN_BASE is 10^GrinDecimals nanogrins
GrinDecimals == 9

\* amounts in whole units, with a fraction, and texts that are no amount
AmountArgs ==
    { << "5" >>, << "0" >>, << "0", "0", "7" >>, << "+", "5" >>,
      << "1", ".", "5" >>, << ".", "5" >>, << "5", "." >>,
      << "a", "b", "c" >>, << "-", "5" >>, << "1", ",", "5" >>, << "5", ".", "x" >> }

RECURSIVE Zeros(_)
Zeros(n) == IF n = 0 THEN << >> ELSE << "0" >> \o Zeros(n - 1)

\* u64::MAX, 18446744073709551615
U64Max ==
    << "1", "8", "4", "4", "6", "7", "4", "4", "0", "7",
       "3", "7", "0", "9", "5", "5", "1", "6", "1", "5" >>

\* str::parse::<u64>(): as for u32, against u64::MAX
ParseU64(cs) ==
    LET ds == IF cs # << >> /\ Head(cs) = "+" THEN Tail(cs) ELSE cs
    IN  IF ds = << >> THEN [ ok |-> FALSE, value |-> << >> ]
        ELSE IF \E i \in 1..Len(ds) : ds[i] \notin Digits
             THEN [ ok |-> FALSE, value |-> << >> ]
        ELSE IF ~NumLeq(Canon(ds), U64Max) THEN [ ok |-> FALSE, value |-> << >> ]
        ELSE [ ok |-> TRUE, value |-> Canon(ds) ]

\* parse_grins: the whole units; no text is 0
parse_grins(cs) ==
    IF cs = << >> THEN [ ok |-> TRUE, value |-> << "0" >> ] ELSE ParseU64(cs)

\* parse_ngrins: the fraction cut or padded with zeros to GrinDecimals digits
parse_ngrins(cs) ==
    LET cut == IF Len(cs) > GrinDecimals THEN SubSeq(cs, 1, GrinDecimals) ELSE cs
        padded == cut \o Zeros(GrinDecimals - Len(cut))
        p == ParseU64(padded)
    IN  IF p.ok /\ (padded = << >> \/ Head(padded) # "+")
        THEN [ ok |-> TRUE, digits |-> padded ]
        ELSE [ ok |-> FALSE, digits |-> << >> ]

\* the position of the first `c` in cs, 0 when there is none
FirstIndex(cs, c) ==
    IF \E i \in 1..Len(cs) : cs[i] = c
    THEN CHOOSE i \in 1..Len(cs) : cs[i] = c /\ \A j \in 1..(i - 1) : cs[j] # c
    ELSE 0

\* the amount read as a plain integer, without the unit scale
amount_unscaled(cs) == ParseU64(cs)

\* main.rs 242: core::amount_from_hr_string: grins * GRIN_BASE + ngrins, or a
\* conversion failure; "," is refused and "." separates the fraction
amount_from_hr_string(cs) ==
    LET dot   == FirstIndex(cs, ".")
        gs    == IF dot = 0 THEN cs ELSE SubSeq(cs, 1, dot - 1)
        tail  == IF dot = 0 THEN << >> ELSE SubSeq(cs, dot + 1, Len(cs))
        grins == parse_grins(gs)
        ngrins == IF dot = 0 THEN [ ok |-> TRUE, digits |-> Zeros(GrinDecimals) ]
                  ELSE parse_ngrins(tail)
    IN  IF FirstIndex(cs, ",") # 0 THEN [ ok |-> FALSE, value |-> << >> ]
        ELSE IF ~grins.ok \/ ~ngrins.ok THEN [ ok |-> FALSE, value |-> << >> ]
        ELSE [ ok |-> TRUE, value |-> Canon(grins.value \o ngrins.digits) ]

-----------------------------------------------------------------------------
(* Wallet (wallet::Wallet) and its relay client.                           *)

NetOutcomes == {"ok", "fail"}

\* Wallet::start_client(password, uri, key): the relay client is connected and
\* listening with the given URI and key, or the attempt fails and nothing changes
start_client(uri, key, net, cn, cl) ==
    IF net = "fail"
    THEN [ res |-> "RelayError", conn |-> cn, client |-> cl ]
    ELSE [ res |-> "Ok", conn |-> "connected",
           client |-> Some([ uri |-> uri, key |-> key ]) ]

\* Wallet::stop_client(): disconnected afterwards, whatever the state before
stop_client(cn, cl) == [ res |-> "Ok", conn |-> "disconnected", client |-> None ]

\* Wallet::subscribe(): the relay client subscribes, or the relay fails
subscribe(net, sub) ==
    IF net = "fail"
    THEN [ res |-> "RelayError", subscribed |-> sub ]
    ELSE [ res |-> "Ok", subscribed |-> TRUE ]

\* Wallet::unsubscribe(): the relay client drops its subscription, or the relay fails
unsubscribe(net, sub) ==
    IF net = "fail"
    THEN [ res |-> "RelayError", subscribed |-> sub ]
    ELSE [ res |-> "Ok", subscribed |-> FALSE ]

\* do_listen without the test of the URI
do_listen_NoUriTest(file, io) ==
    IF ConfigExists(file)
    THEN LET l == from_file(file, io)
         IN  IF l.res # "Ok"
             THEN [ res |-> "LoadConfig", err |-> << >>, start |-> None ]
             ELSE LET config == Unwrap(l.config)
                  IN  IF config.grinbox_private_key = ""
                      THEN [ res |-> "ConfigMissingKeys", err |-> << >>, start |-> None ]
                      ELSE [ res |-> "Ok", err |-> << >>,
                             start |-> Some([ uri |-> config.grinbox_uri,
                                              key |-> config.grinbox_private_key ]) ]
    ELSE [ res |-> "ConfigNotFound", err |-> << >>, start |-> None ]

\* do_listen with the URI tested before the key
do_listen_UriFirst(file, io) ==
    IF ConfigExists(file)
    THEN LET l == from_file(file, io)
         IN  IF l.res # "Ok"
             THEN [ res |-> "LoadConfig", err |-> << >>, start |-> None ]
             ELSE LET config == Unwrap(l.config)
                  IN  IF config.grinbox_uri = ""
                      THEN [ res |-> "ConfigMissingValue", err |-> << "gribox uri" >>,
                             start |-> None ]
                      ELSE IF config.grinbox_private_key = ""
                      THEN [ res |-> "ConfigMissingKeys", err |-> << >>, start |-> None ]
                      ELSE [ res |-> "Ok", err |-> << >>,
                             start |-> Some([ uri |-> config.grinbox_uri,
                                              key |-> config.grinbox_private_key ]) ]
    ELSE [ res |-> "ConfigNotFound", err |-> << >>, start |-> None ]

\* do_listen(wallet, password) against the persisted `file` (main.rs 117-133):
\* the failure, or the URI and key start_client is called with
do_listen(file, io) ==
    IF ConfigExists(file)
    THEN LET l == from_file(file, io)
         IN  IF l.res # "Ok"
             THEN [ res |-> "LoadConfig", err |-> << >>, start |-> None ]
             ELSE LET config == Unwrap(l.config)
                  IN  IF config.grinbox_private_key = ""
                      THEN [ res |-> "ConfigMissingKeys", err |-> << >>, start |-> None ]
                      ELSE IF config.grinbox_uri = ""
                      THEN [ res |-> "ConfigMissingValue", err |-> << "gribox uri" >>,
                             start |-> None ]
                      ELSE [ res |-> "Ok", err |-> << >>,
                             start |-> Some([ uri |-> config.grinbox_uri,
                                              key |-> config.grinbox_private_key ]) ]
    ELSE [ res |-> "ConfigNotFound", err |-> << >>, start |-> None ]

\* welcome() (main.rs 143-155): do_config with no options, silently, then the
\* relay address derived from the private key
welcome(file, pr, io) ==
    LET r == do_config(NoArgs, TRUE, file, pr, io)
    IN  IF r.res # "Ok"
        THEN [ res |-> r.res, file |-> r.file, config |-> None, generated |-> r.generated ]
        ELSE IF from_hex(Unwrap(r.config).grinbox_private_key) # "Ok"
        THEN [ res |-> from_hex(Unwrap(r.config).grinbox_private_key), file |-> r.file,
               config |-> None, generated |-> r.generated ]
        ELSE [ res |-> "Ok", file |-> r.file, config |-> r.config,
               generated |-> r.generated ]

-----------------------------------------------------------------------------
(* The process: main() and do_command().                                   *)

PCs == {"start", "prompt", "do_contacts", "locked", "report", "exited", "panicked"}

Dead == {"start", "exited", "panicked"}

NoContactsArgs == [ sub |-> "", name |-> "", public_key |-> "" ]

\* the loop iteration's locals: the command read, what the handler did with it
\* and the result do_command returned
Idle ==
    [ op        |-> "none",      \* subcommand name
      res       |-> "none",      \* "Ok" or the error returned; "pending" inside do_contacts
      err       |-> << >>,       \* the text the error carries
      fn        |-> "none",      \* the Wallet method invoked
      pw        |-> "",          \* the password passed to it
      num       |-> << >>,       \* the id or amount passed to it, in digits
      out       |-> "none",      \* the message the handler printed
      lines     |-> 0,           \* contact lines printed
      args      |-> NoArgs,      \* the options of `config`
      name      |-> "",          \* the command name of a line no handler serves
      returned  |-> None,        \* the record do_config returned
      start     |-> None,        \* the URI and key start_client was called with
      id        |-> << >>,       \* the id argument of `repost` and `cancel`
      amount    |-> << >>,       \* the --amount argument of `send`
      pwarg     |-> None,        \* the password argument of `send`
      was       |-> "",          \* connectivity when `listen` or `stop` was read
      generated |-> FALSE,       \* generate_keypair() was called
      cargs     |-> NoContactsArgs,
      acq       |-> 0 ]          \* acquisitions of the address-book mutex

Init ==
    /\ pc = "start"
    /\ cfgFile = None
    /\ book = << >>
    /\ bookStore = << >>
    /\ bookPath = "d0"
    /\ conn = "disconnected"
    /\ client = None
    /\ subscribed = FALSE
    /\ holders = {}
    /\ last = Idle

\* generate_keypair() draws a key only where do_config calls it
KeyDraws(needed) == IF needed THEN GenKeys ELSE {"G1"}

\* AddressBook::new(config): opens the store under the data path, or creates an
\* empty one there.  --data-path only ever moves from "d0" to "d1", so the store
\* left behind is never opened again and one store is followed.
OpenedStore(config, path, store) ==
    IF config.wallet713_data_path = path THEN store ELSE << >>

\* main.rs 158-164: welcome(), AddressBook::new, Wallet::new; a failure panics.
\* The process is started for the first time, or again after it ended.
Startup ==
    /\ pc \in Dead
    /\ \E io \in IoOutcomes, ab \in {"ok", "fail"} :
       \E pr \in KeyDraws(NeedsNewKeys(ConfigExists(cfgFile), NoArgs)) :
         LET w == welcome(cfgFile, pr, io)
         IN  /\ cfgFile' = w.file
             /\ conn' = "disconnected"
             /\ client' = None
             /\ subscribed' = FALSE
             /\ holders' = {}
             /\ IF w.res # "Ok"
                THEN /\ ab = "ok"
                     /\ pc' = "panicked"
                     /\ last' = [Idle EXCEPT !.op = "welcome", !.res = w.res,
                                             !.generated = w.generated]
                     /\ book' = << >>
                     /\ UNCHANGED << bookStore, bookPath >>
                ELSE IF ab = "fail"
                THEN /\ pc' = "panicked"
                     /\ last' = [Idle EXCEPT !.op = "address_book", !.res = "StoreError",
                                             !.generated = w.generated]
                     /\ book' = << >>
                     /\ UNCHANGED << bookStore, bookPath >>
                ELSE /\ pc' = "prompt"
                     /\ last' = [Idle EXCEPT !.op = "welcome", !.res = "Ok",
                                             !.returned = w.config,
                                             !.generated = w.generated]
                     /\ book' = OpenedStore(Unwrap(w.config), bookPath, bookStore)
                     /\ bookStore' = OpenedStore(Unwrap(w.config), bookPath, bookStore)
                     /\ bookPath' = Unwrap(w.config).wallet713_data_path

\* the process is gone: nothing of the session survives
SessionGone ==
    /\ book' = << >>
    /\ conn' = "disconnected"
    /\ client' = None
    /\ subscribed' = FALSE
    /\ holders' = {}

\* the next line is read with the result of the last one not yet reported
Returned_Unreported(r) ==
    /\ pc' = "prompt"
    /\ last' = r

\* main.rs 170: do_command returned `r` to the loop
Returned(r) ==
    /\ pc' = "report"
    /\ last' = r

\* main.rs 169: read_line fails (the bytes read are not UTF-8) and expect() panics
ReadLineFails ==
    /\ pc = "prompt"
    /\ pc' = "panicked"
    /\ last' = [Idle EXCEPT !.op = "read_line", !.res = "panic"]
    /\ SessionGone
    /\ UNCHANGED << cfgFile, bookStore, bookPath >>

\* command names that do_command has no arm for (main.rs 181-258)
OtherNames == {"frobnicate"}

\* command names whose line can fail to parse: the above, and `send` without --to
RejectedNames == OtherNames \cup {"send"}

\* main.rs 179: Parser::parse rejects the line: the command name is not in the
\* grammar, or an argument is missing or malformed
CmdParseError ==
    /\ pc = "prompt"
    /\ \E name \in RejectedNames :
         Returned([Idle EXCEPT !.op = "parse", !.name = name, !.res = "ParseError"])
    /\ UNCHANGED << cfgFile, book, bookStore, bookPath, conn, client, subscribed, holders >>

\* main.rs 181-183
CmdExit ==
    /\ pc = "prompt"
    /\ pc' = "exited"
    /\ last' = [Idle EXCEPT !.op = "exit", !.res = "exit(0)"]
    /\ SessionGone
    /\ UNCHANGED << cfgFile, bookStore, bookPath >>

\* `config` that restarts a listening relay client with the record it wrote
ConfigCommand_Restarts(argset) ==
    /\ pc = "prompt"
    /\ \E args \in argset, io \in IoOutcomes :
       \E pr \in KeyDraws(NeedsNewKeys(ConfigExists(cfgFile), args)) :
         LET r == do_config(args, FALSE, cfgFile, pr, io)
         IN  /\ cfgFile' = r.file
             /\ client' = IF r.res = "Ok" /\ conn = "connected"
                          THEN Some([ uri |-> Unwrap(r.config).grinbox_uri,
                                      key |-> Unwrap(r.config).grinbox_private_key ])
                          ELSE client
             /\ Returned([Idle EXCEPT !.op = "config", !.res = r.res,
                                      !.out = IF r.shown THEN "config" ELSE "none",
                                      !.args = args, !.returned = r.config,
                                      !.generated = r.generated])
    /\ UNCHANGED << book, bookStore, bookPath, conn, subscribed, holders >>

\* main.rs 184-186, for a line whose options are among `argset`
ConfigCommand(argset) ==
    /\ pc = "prompt"
    /\ \E args \in argset, io \in IoOutcomes :
       \E pr \in KeyDraws(NeedsNewKeys(ConfigExists(cfgFile), args)) :
         LET r == do_config(args, FALSE, cfgFile, pr, io)
         IN  /\ cfgFile' = r.file
             /\ Returned([Idle EXCEPT !.op = "config", !.res = r.res,
                                      !.out = IF r.shown THEN "config" ELSE "none",
                                      !.args = args, !.returned = r.config,
                                      !.generated = r.generated])
    /\ UNCHANGED << book, bookStore, bookPath, conn, client, subscribed, holders >>

\* `config` with the relay options
CmdConfig == ConfigCommand(RelayArgs)

\* `config` with any options
CmdConfigAny == ConfigCommand(ConfigArgs)

\* a Wallet method that touches nothing this model follows: it succeeds or fails
WalletCall(op, fn, pw, num) ==
    /\ pc = "prompt"
    /\ \E net \in NetOutcomes :
         Returned([Idle EXCEPT !.op = op, !.fn = fn, !.pw = PasswordOrEmpty(pw),
                               !.num = num,
                               !.res = IF net = "ok" THEN "Ok" ELSE "WalletError"])
    /\ UNCHANGED << cfgFile, book, bookStore, bookPath, conn, client, subscribed, holders >>

\* main.rs 187-190
CmdInit == \E pw \in Passwords : WalletCall("init", "init", pw, << >>)

\* main.rs 191-194
CmdListen ==
    /\ pc = "prompt"
    /\ \E pw \in Passwords, io \in {"ok", "read_fail"}, net \in NetOutcomes :
         LET l == do_listen(cfgFile, io)
         IN  IF l.res # "Ok"
             THEN /\ net = "ok"
                  /\ Returned([Idle EXCEPT !.op = "listen", !.res = l.res, !.err = l.err,
                                           !.was = conn])
                  /\ UNCHANGED << conn, client >>
             ELSE LET s == start_client(Unwrap(l.start).uri, Unwrap(l.start).key,
                                        net, conn, client)
                  IN  /\ conn' = s.conn
                      /\ client' = s.client
                      /\ Returned([Idle EXCEPT !.op = "listen", !.fn = "start_client",
                                               !.pw = PasswordOrEmpty(pw),
                                               !.start = l.start,
                                               !.res = s.res, !.was = conn])
    /\ UNCHANGED << cfgFile, book, bookStore, bookPath, subscribed, holders >>

\* `subscribe` served only while connected
CmdSubscribe_WhenConnected ==
    /\ pc = "prompt"
    /\ conn = "connected"
    /\ \E net \in NetOutcomes :
         /\ subscribed' = subscribe(net, subscribed).subscribed
         /\ Returned([Idle EXCEPT !.op = "subscribe", !.fn = "subscribe",
                                  !.res = subscribe(net, subscribed).res])
    /\ UNCHANGED << cfgFile, book, bookStore, bookPath, conn, client, holders >>

\* main.rs 195-197
CmdSubscribe ==
    /\ pc = "prompt"
    /\ \E net \in NetOutcomes :
         /\ subscribed' = subscribe(net, subscribed).subscribed
         /\ Returned([Idle EXCEPT !.op = "subscribe", !.fn = "subscribe",
                                  !.res = subscribe(net, subscribed).res])
    /\ UNCHANGED << cfgFile, book, bookStore, bookPath, conn, client, holders >>

\* main.rs 198-200
CmdUnsubscribe ==
    /\ pc = "prompt"
    /\ \E net \in NetOutcomes :
         /\ subscribed' = unsubscribe(net, subscribed).subscribed
         /\ Returned([Idle EXCEPT !.op = "unsubscribe", !.fn = "unsubscribe",
                                  !.res = unsubscribe(net, subscribed).res])
    /\ UNCHANGED << cfgFile, book, bookStore, bookPath, conn, client, holders >>

\* `stop` dispatched to Wallet::unsubscribe()
CmdStop_Unsubscribes ==
    /\ pc = "prompt"
    /\ subscribed' = unsubscribe("ok", subscribed).subscribed
    /\ Returned([Idle EXCEPT !.op = "stop", !.fn = "unsubscribe", !.res = "Ok",
                             !.was = conn])
    /\ UNCHANGED << cfgFile, book, bookStore, bookPath, conn, client, holders >>

\* main.rs 201-203
CmdStop ==
    /\ pc = "prompt"
    /\ LET s == stop_client(conn, client)
       IN  /\ conn' = s.conn
           /\ client' = s.client
           /\ Returned([Idle EXCEPT !.op = "stop", !.fn = "stop_client", !.res = s.res,
                                    !.was = conn])
    /\ UNCHANGED << cfgFile, book, bookStore, bookPath, subscribed, holders >>

\* main.rs 204-207
CmdInfo == \E pw \in Passwords : WalletCall("info", "info", pw, << >>)

\* main.rs 208-211
CmdTxs == \E pw \in Passwords : WalletCall("txs", "txs", pw, << >>)

\* main.rs 212-215 and 92: do_contacts is entered with the parsed subcommand
CmdContacts ==
    /\ pc = "prompt"
    /\ \E args \in ContactsArgs :
         /\ pc' = "do_contacts"
         /\ last' = [Idle EXCEPT !.op = "contacts", !.res = "pending", !.cargs = args]
    /\ UNCHANGED << cfgFile, book, bookStore, bookPath, conn, client, subscribed, holders >>

\* main.rs 93: address_book.lock()
ContactsLock ==
    /\ pc = "do_contacts"
    /\ CanLock(holders)
    /\ holders' = holders \cup {"fg"}
    /\ pc' = "locked"
    /\ last' = [last EXCEPT !.acq = @ + 1]
    /\ UNCHANGED << cfgFile, book, bookStore, bookPath, conn, client, subscribed >>

\* main.rs 94-115: the subcommand runs and do_contacts returns
ContactsRun ==
    /\ pc = "locked"
    /\ \E io \in {"ok", "write_fail"} :
         LET r == do_contacts_body(book, last.cargs, io)
         IN  /\ book' = r.book
             /\ bookStore' = r.book
             /\ holders' = GuardDropped(holders, r.res)
             /\ Returned([last EXCEPT !.res = r.res, !.err = r.err,
                                      !.out = r.out, !.lines = r.lines])
    /\ UNCHANGED << cfgFile, bookPath, conn, client, subscribed >>

\* main.rs 216-220
CmdOutputs == \E pw \in Passwords : WalletCall("outputs", "outputs", pw, << >>)

\* main.rs 221-228 and 229-236: the id is parsed, then repost or cancel is invoked
TxIdCommand(op, ids) ==
    /\ pc = "prompt"
    /\ \E pw \in Passwords, id \in ids, net \in NetOutcomes :
         LET p == ParseU32(id)
         IN  IF ~p.ok
             THEN /\ net = "ok"
                  /\ pw = None
                  /\ Returned([Idle EXCEPT !.op = op, !.id = id, !.res = "InvalidTxId",
                                           !.err = id])
             ELSE Returned([Idle EXCEPT !.op = op, !.id = id, !.fn = op,
                                        !.pw = PasswordOrEmpty(pw), !.num = p.value,
                                        !.res = IF net = "ok" THEN "Ok" ELSE "WalletError"])
    /\ UNCHANGED << cfgFile, book, bookStore, bookPath, conn, client, subscribed, holders >>

\* main.rs 221-228
CmdRepost == TxIdCommand("repost", BasicIds)

\* main.rs 229-236
CmdCancel == TxIdCommand("cancel", BasicIds)

\* `repost` with any id text
CmdRepostAny == TxIdCommand("repost", IdArgs)

\* `cancel` with any id text
CmdCancelAny == TxIdCommand("cancel", IdArgs)

\* main.rs 237-251
CmdSend ==
    /\ pc = "prompt"
    /\ \E pw \in Passwords, amount \in AmountArgs, net \in NetOutcomes :
         LET a == amount_from_hr_string(amount)
         IN  IF ~a.ok
             THEN /\ net = "ok"
                  /\ pw = None
                  /\ Returned([Idle EXCEPT !.op = "send", !.res = "InvalidAmount",
                                           !.amount = amount, !.err = amount])
             ELSE Returned([Idle EXCEPT !.op = "send", !.fn = "send",
                                        !.amount = amount, !.pwarg = pw,
                                        !.pw = PasswordOrEmpty(pw), !.num = a.value,
                                        !.out = IF net = "ok" THEN "slate" ELSE "none",
                                        !.res = IF net = "ok" THEN "Ok" ELSE "WalletError"])
    /\ UNCHANGED << cfgFile, book, bookStore, bookPath, conn, client, subscribed, holders >>

\* main.rs 252-255
CmdRestore == \E pw \in Passwords : WalletCall("restore", "restore", pw, << >>)

\* main.rs 256-258
CmdChallenge ==
    /\ pc = "prompt"
    /\ Returned([Idle EXCEPT !.op = "challenge", !.out = "challenge", !.res = "Ok"])
    /\ UNCHANGED << cfgFile, book, bookStore, bookPath, conn, client, subscribed, holders >>

\* main.rs 259-261: a subcommand the grammar knows and do_command does not
CmdOther_Fails ==
    /\ pc = "prompt"
    /\ \E name \in OtherNames :
         Returned([Idle EXCEPT !.op = "other", !.name = name, !.res = "NotImplemented"])
    /\ UNCHANGED << cfgFile, book, bookStore, bookPath, conn, client, subscribed, holders >>

\* main.rs 259-261: the grammar of Parser::parse has the command name and
\* do_command has no arm for it
CmdOther ==
    /\ pc = "prompt"
    /\ \E name \in OtherNames :
         Returned([Idle EXCEPT !.op = "other", !.name = name,
                               !.out = "not_implemented", !.res = "Ok"])
    /\ UNCHANGED << cfgFile, book, bookStore, bookPath, conn, client, subscribed, holders >>

\* the empty line taken for a command without an arm
CmdEmpty_NotImplemented ==
    /\ pc = "prompt"
    /\ Returned([Idle EXCEPT !.op = "empty", !.out = "not_implemented", !.res = "Ok"])
    /\ UNCHANGED << cfgFile, book, bookStore, bookPath, conn, client, subscribed, holders >>

\* main.rs 262: no subcommand
CmdEmpty ==
    /\ pc = "prompt"
    /\ Returned([Idle EXCEPT !.op = "empty", !.res = "Ok"])
    /\ UNCHANGED << cfgFile, book, bookStore, bookPath, conn, client, subscribed, holders >>

\* main.rs 171-174: an error is printed; the loop goes back to the prompt
Report ==
    /\ pc = "report"
    /\ pc' = "prompt"
    /\ last' = Idle
    /\ UNCHANGED << cfgFile, book, bookStore, bookPath, conn, client, subscribed, holders >>

\* main.rs 45, 118: Wallet713Config::exists() looks at the file system each
\* time; the persisted record is deleted from outside between two commands
ConfigFileRemoved ==
    /\ pc = "prompt"
    /\ ConfigExists(cfgFile)
    /\ cfgFile' = None
    /\ UNCHANGED << pc, book, bookStore, bookPath, conn, client, subscribed, holders, last >>

\* an accessor holding the handle given to Wallet::new (main.rs 164) locks the book
BgAcquire ==
    /\ pc \notin Dead
    /\ CanLock(holders)
    /\ holders' = holders \cup {"bg"}
    /\ UNCHANGED << pc, cfgFile, book, bookStore, bookPath, conn, client, subscribed, last >>

\* and drops its guard
BgRelease ==
    /\ "bg" \in holders
    /\ holders' = holders \ {"bg"}
    /\ UNCHANGED << pc, cfgFile, book, bookStore, bookPath, conn, client, subscribed, last >>

Next ==
    \/ Startup
    \/ CmdParseError
    \/ CmdExit
    \/ CmdConfig
    \/ CmdInit
    \/ CmdListen
    \/ CmdSubscribe
    \/ CmdUnsubscribe
    \/ CmdStop
    \/ CmdInfo
    \/ CmdTxs
    \/ CmdContacts
    \/ ContactsLock
    \/ ContactsRun
    \/ CmdOutputs
    \/ CmdRepost
    \/ CmdCancel
    \/ CmdSend
    \/ CmdRestore
    \/ CmdChallenge
    \/ CmdOther
    \/ CmdEmpty
    \/ Report
    \/ BgAcquire
    \/ BgRelease
    \/ ConfigFileRemoved
    \/ ReadLineFails

\* the whole loop: every command
Spec == Init /\ [][Next]_vars

\* startups and `config` lines with every combination of options
NextConfig ==
    \/ Startup
    \/ CmdExit
    \/ CmdConfigAny
    \/ Report
    \/ ConfigFileRemoved
    \/ ReadLineFails

SpecConfig == Init /\ [][NextConfig]_vars

\* `repost` and `cancel` lines with every id text
NextTx ==
    \/ Startup
    \/ CmdExit
    \/ CmdRepostAny
    \/ CmdCancelAny
    \/ Report

SpecTx == Init /\ [][NextTx]_vars

TypeOK ==
    /\ pc \in PCs
    /\ cfgFile \in {None} \cup { Some(c) : c \in ConfigRecords }
    /\ book \in Books
    /\ bookStore \in Books
    /\ bookPath \in DataPaths
    /\ conn \in {"disconnected", "connected"}
    /\ subscribed \in BOOLEAN
    /\ holders \subseteq {"fg", "bg"}

-----------------------------------------------------------------------------
(* Properties.                                                             *)

PersistedKey(file) == Unwrap(file).grinbox_private_key

PersistedUri(file) == Unwrap(file).grinbox_uri

\* this step ran do_config: a `config` line was processed, or the process started
ConfigStep ==
    \/ pc = "prompt" /\ pc' = "report" /\ last'.op = "config"
    \/ pc \in Dead /\ pc' \in {"prompt", "panicked"}

\* C1: while a record is persisted and --generate-keys is not passed, do_config
\* (in welcome and in `config`) generates no keypair, and the persisted private
\* key changes only when --private-key is given, and then to that value.
C1_KeyNeverRegenerated ==
    [][ (ConfigStep /\ ConfigExists(cfgFile) /\ ~last'.args.generate_keys)
          => /\ ~last'.generated
             /\ ConfigExists(cfgFile')
             /\ PersistedKey(cfgFile') # PersistedKey(cfgFile)
                  => /\ IsSome(last'.args.private_key)
                     /\ PersistedKey(cfgFile') = Unwrap(last'.args.private_key) ]_vars

\* a `config --private-key K1` without --generate-keys has set the persisted key
C1_Witness ==
    /\ pc = "report"
    /\ last.op = "config"
    /\ last.res = "Ok"
    /\ last.args.private_key = Some("K1")
    /\ ~last.args.generate_keys
    /\ ~last.generated
    /\ PersistedKey(cfgFile) = "K1"

\* C2: do_config with no options on a persisted record leaves the persisted
\* record as it was, field for field, however often it is run.
C2_NoOptionsNoChange ==
    [][ (ConfigStep /\ ConfigExists(cfgFile) /\ last'.args = NoArgs)
          => cfgFile' = cfgFile ]_vars

\* `config` without options has run on a record none of whose fields is the default
C2_Witness ==
    /\ pc = "report"
    /\ last.op = "config"
    /\ last.res = "Ok"
    /\ last.args = NoArgs
    /\ cfgFile = Some([ wallet713_data_path |-> "d1", grinbox_uri |-> "",
                        grinbox_private_key |-> "K1", grin_node_uri |-> "n1",
                        grin_node_secret |-> Some("s1") ])

\* this step processed a `listen` line
ListenStep == pc = "prompt" /\ pc' = "report" /\ last'.op = "listen"

\* C3 as stated: `listen` on a readable record whose URI is empty fails with
\* ConfigMissingValue and the session is disconnected afterwards, whatever the
\* other fields and the state before.
C3_Original ==
    (/\ pc = "report"
     /\ last.op = "listen"
     /\ last.res # "LoadConfig"
     /\ ConfigExists(cfgFile)
     /\ PersistedUri(cfgFile) = "")
      => (last.res = "ConfigMissingValue" /\ conn = "disconnected")

\* C3 amended: `listen` on a record whose URI is empty never invokes
\* start_client and leaves connectivity as it was; on a readable record the
\* failure is ConfigMissingValue when the private key is set and
\* ConfigMissingKeys when the key is empty too.
C3_EmptyUriListenFails ==
    [][ (ListenStep /\ ConfigExists(cfgFile) /\ PersistedUri(cfgFile) = "")
          => /\ conn' = conn
             /\ client' = client
             /\ last'.fn = "none"
             /\ \/ last'.res = "LoadConfig"
                \/ /\ PersistedKey(cfgFile) # ""
                   /\ last'.res = "ConfigMissingValue"
                   /\ last'.err = << "gribox uri" >>
                \/ /\ PersistedKey(cfgFile) = ""
                   /\ last'.res = "ConfigMissingKeys" ]_vars

\* `listen` has failed for the empty URI while the relay client was listening
C3_Witness ==
    /\ pc = "report"
    /\ last.op = "listen"
    /\ last.res = "ConfigMissingValue"
    /\ last.was = "connected"
    /\ conn = "connected"
    /\ PersistedUri(cfgFile) = ""

\* C4 as stated: a persisted record whose private key or URI is empty is
\* loaded at startup, so startup fails on it only when the file system does.
C4_EmptyFieldsLoad ==
    (/\ pc = "panicked"
     /\ last.op = "welcome"
     /\ ConfigExists(cfgFile)
     /\ (PersistedKey(cfgFile) = "" \/ PersistedUri(cfgFile) = ""))
      => last.res = "IoError"

\* C5 as stated: once startup has succeeded the process ends only by `exit`;
\* it is never ended by a panic in the loop.
C5_OnlyExitTerminates ==
    /\ pc = "exited" => last.op = "exit"
    /\ pc = "panicked" => last.op \in {"welcome", "address_book"}

Range(seq) == { seq[i] : i \in 1..Len(seq) }

UniqueNames(bk) == \A i, j \in 1..Len(bk) : bk[i].name = bk[j].name => i = j

\* this step ran the body of do_contacts for subcommand `sub`
ContactsStep(sub) == pc = "locked" /\ pc' = "report" /\ last.cargs.sub = sub

\* C6: `contacts add NAME KEY` with NAME in the book fails with
\* DuplicateContact(NAME) and leaves the book, in memory and persisted, as it
\* was; no name ever occurs twice in the book.
C6_DuplicateAddRejected ==
    /\ [](UniqueNames(book) /\ UniqueNames(bookStore))
    /\ [][ (ContactsStep("add") /\ HasName(book, last.cargs.name))
             => /\ last'.res = "DuplicateContact"
                /\ last'.err = << last.cargs.name >>
                /\ book' = book
                /\ bookStore' = bookStore ]_vars

\* alice is in the book with the first key and adding her with another key failed
C6_Witness ==
    /\ pc = "report"
    /\ last.op = "contacts"
    /\ last.cargs = [ sub |-> "add", name |-> "alice", public_key |-> "PK2" ]
    /\ last.res = "DuplicateContact"
    /\ book = << [ name |-> "alice", public_key |-> "PK1" ] >>
    /\ bookStore = book

\* C7: `contacts remove NAME` with NAME absent fails with ContactNotFound(NAME)
\* and leaves the book as it was; with NAME present a successful removal takes
\* out that contact and no other, and a failed one takes out none.
C7_RemoveExactlyNamed ==
    [][ ContactsStep("remove")
          => IF ~HasName(book, last.cargs.name)
             THEN /\ last'.res = "ContactNotFound"
                  /\ last'.err = << last.cargs.name >>
                  /\ book' = book
                  /\ bookStore' = bookStore
             ELSE /\ last'.res \in {"Ok", "StoreError"}
                  /\ last'.res = "Ok"
                       => /\ Range(book') = { c \in Range(book) : c.name # last.cargs.name }
                          /\ Len(book') = Len(book) - 1
                          /\ bookStore' = book'
                  /\ last'.res # "Ok"
                       => /\ book' = book
                          /\ bookStore' = bookStore ]_vars

\* removing bob failed while the book holds alice alone
C7_Witness ==
    /\ pc = "report"
    /\ last.op = "contacts"
    /\ last.cargs.sub = "remove"
    /\ last.cargs.name = "bob"
    /\ last.res = "ContactNotFound"
    /\ book = << [ name |-> "alice", public_key |-> "PK1" ] >>

\* C8: at most one accessor holds the address-book mutex; do_contacts takes it
\* once and has dropped it whenever it has returned, on every path.
C8_LockReleased ==
    /\ Cardinality(holders) <= 1
    /\ pc = "do_contacts" => "fg" \notin holders /\ last.acq = 0
    /\ pc = "locked" => holders = {"fg"} /\ last.acq = 1
    /\ pc \in {"start", "prompt", "report", "exited", "panicked"} => "fg" \notin holders
    /\ (pc = "report" /\ last.op = "contacts") => last.acq = 1

\* do_contacts returned early with an error and the other accessor holds the lock
C8_Witness ==
    /\ pc = "report"
    /\ last.op = "contacts"
    /\ last.res = "DuplicateContact"
    /\ last.acq = 1
    /\ holders = {"bg"}

Unsigned(cs) == IF cs # << >> /\ Head(cs) = "+" THEN Tail(cs) ELSE cs

\* the text writes an unsigned integer: digits, after an optional "+"
IsUnsignedInteger(cs) ==
    /\ Unsigned(cs) # << >>
    /\ \A i \in 1..Len(Unsigned(cs)) : Unsigned(cs)[i] \in Digits

\* the text writes an unsigned integer of at most 32 bits
IsU32(cs) == IsUnsignedInteger(cs) /\ NumLeq(Canon(Unsigned(cs)), U32Max)

\* `repost` or `cancel` invoked the wallet with the number the id writes
Forwarded ==
    /\ last.fn = last.op
    /\ last.num = Canon(Unsigned(last.id))
    /\ last.res \in {"Ok", "WalletError"}

\* `repost` or `cancel` failed on the id without invoking the wallet
RejectedId ==
    /\ last.fn = "none"
    /\ last.res = "InvalidTxId"
    /\ last.err = last.id

\* C10 as stated: an id that writes an unsigned integer is forwarded to the
\* wallet as that number, any other id fails with InvalidTxId(text).
C10_Original ==
    (pc = "report" /\ last.op \in {"repost", "cancel"})
      => IF IsUnsignedInteger(last.id) THEN Forwarded ELSE RejectedId

\* C10 amended: an id that writes an unsigned integer of at most 4294967295 is
\* forwarded as that number; any other id, a larger integer included, fails
\* with InvalidTxId(text) and the wallet is not invoked.
C10_IdParsedAsU32 ==
    (pc = "report" /\ last.op \in {"repost", "cancel"})
      => IF IsU32(last.id) THEN Forwarded ELSE RejectedId

\* `repost +7` reached the wallet as 7
C10_Witness ==
    /\ pc = "report"
    /\ last.op = "repost"
    /\ last.id = << "+", "7" >>
    /\ last.fn = "repost"
    /\ last.num = << "7" >>

-----------------------------------------------------------------------------
(* send                                                                     *)

\* the text writes whole units: digits only
IsWholeAmount(cs) == cs # << >> /\ \A i \in 1..Len(cs) : cs[i] \in Digits

\* the text holds a character no amount is written with
NotAnAmount(cs) == \E i \in 1..Len(cs) : cs[i] \notin Digits \cup {".", "+"}

\* whole units in the smallest unit: the number followed by GrinDecimals zeros
InSmallestUnit(cs) == Canon(cs \o Zeros(GrinDecimals))

\* C11: `send` forwards the amount in the smallest unit (whole units n become
\* n followed by nine zeros), with the password given or "" when none is
\* given; an amount that cannot be converted fails with InvalidAmount carrying
\* the raw text and the wallet's send is not invoked.
C11_SendConvertsAmount ==
    (pc = "report" /\ last.op = "send") =>
      /\ IsWholeAmount(last.amount) =>
           /\ last.fn = "send"
           /\ last.num = InSmallestUnit(last.amount)
      /\ NotAnAmount(last.amount) => last.res = "InvalidAmount"
      /\ last.res = "InvalidAmount" =>
           /\ last.fn = "none"
           /\ last.err = last.amount
           /\ ~amount_from_hr_string(last.amount).ok
      /\ last.res # "InvalidAmount" =>
           /\ last.fn = "send"
           /\ last.res \in {"Ok", "WalletError"}
           /\ last.pw = IF IsSome(last.pwarg) THEN Unwrap(last.pwarg) ELSE ""

\* `send --amount 5` without a password reached the wallet as 5000000000, ""
C11_Witness ==
    /\ pc = "report"
    /\ last.op = "send"
    /\ last.amount = << "5" >>
    /\ last.pwarg = None
    /\ last.pw = ""
    /\ last.fn = "send"
    /\ last.num = << "5", "0", "0", "0", "0", "0", "0", "0", "0", "0" >>

-----------------------------------------------------------------------------
(* Lines without a handler.                                                 *)

\* what the session, the configuration and the address book consist of
state == << cfgFile, book, bookStore, bookPath, conn, client, subscribed >>

\* the line "not implemented" was printed and do_command returned Ok(())
NotImplementedOk ==
    /\ last.op = "other"
    /\ last.out = "not_implemented"
    /\ last.res = "Ok"
    /\ last.fn = "none"

\* Parser::parse failed; do_command returned the error, which the loop prints
ParseErrorReported ==
    /\ last.op = "parse"
    /\ last.out = "none"
    /\ last.res = "ParseError"
    /\ last.fn = "none"

\* C12 as stated: a command name without a handler always yields the
\* "not implemented" message and success.
C12_Original ==
    (pc = "report" /\ last.name \in OtherNames) => NotImplementedOk

\* C12 amended: a line whose command name has no handler yields the message
\* "not implemented" with success when the parser's grammar has the name, and
\* a parse error that the loop prints when it has not; either way no wallet
\* function runs, session, configuration and address book are unchanged, and
\* the loop goes back to the prompt.
C12_UnhandledName ==
    [][ /\ (pc = "prompt" /\ last'.name \in OtherNames) =>
             /\ pc' = "report"
             /\ NotImplementedOk' \/ ParseErrorReported'
             /\ UNCHANGED state
        /\ (pc = "report" /\ last.name \in OtherNames /\ pc' # pc) =>
             /\ pc' = "prompt"
             /\ UNCHANGED state ]_vars

\* a line with an unhandled name answered "not implemented" while connected
C12_Witness ==
    /\ pc = "report"
    /\ last.name \in OtherNames
    /\ NotImplementedOk
    /\ conn = "connected"
    /\ book # << >>

\* C13: an empty line is a no-op: do_command returns Ok(()) with no output
\* and no error, no handler and no wallet function runs, session,
\* configuration and address book are unchanged, and the loop goes back to
\* the prompt.
C13_EmptyLineNoOp ==
    [][ /\ (pc = "prompt" /\ last'.op = "empty") =>
             /\ pc' = "report"
             /\ last' = [Idle EXCEPT !.op = "empty", !.res = "Ok"]
             /\ UNCHANGED state
             /\ UNCHANGED holders
        /\ (pc = "report" /\ last.op = "empty" /\ pc' # pc) =>
             /\ pc' = "prompt"
             /\ UNCHANGED state ]_vars

\* an empty line was read while connected with a contact in the book
C13_Witness ==
    /\ pc = "report"
    /\ last.op = "empty"
    /\ last.res = "Ok"
    /\ last.out = "none"
    /\ conn = "connected"
    /\ book # << >>

-----------------------------------------------------------------------------
(* The foreground loop.                                                     *)

\* no line is being processed: nothing was read since the last report
AtPrompt(l) == l.op \in {"none", "welcome"}

\* do_command is running or has returned a result that is not yet reported
Processing == pc \in {"do_contacts", "locked", "report"}

\* C14: command processing is strictly sequential: a line is read only at the
\* prompt, where no handler is in progress and the last result was reported;
\* from then on the same command is in progress until its result is
\* reported, and only the report brings the loop back to the prompt.
C14_StrictlySequential ==
    [][ /\ (AtPrompt(last) /\ ~AtPrompt(last') /\ pc \notin Dead) =>
             /\ pc = "prompt"
             /\ pc' # "prompt"
        /\ (pc' = "prompt") => AtPrompt(last')
        /\ (Processing /\ pc' \notin Dead) =>
             \/ /\ Processing'
                /\ last'.op = last.op
                /\ last'.cargs = last.cargs
                /\ pc' # pc => pc # "report"
             \/ /\ pc = "report"
                /\ pc' = "prompt"
                /\ last' = Idle ]_vars

\* `contacts` waits for the address book, which another accessor holds: the
\* loop reads nothing
C14_Witness ==
    /\ pc = "do_contacts"
    /\ last.op = "contacts"
    /\ last.res = "pending"
    /\ holders = {"bg"}

-----------------------------------------------------------------------------
(* subscribe, unsubscribe                                                   *)

\* C15: `subscribe` and `unsubscribe` are served in either connectivity
\* state; they invoke only the wallet function of their name, which acts on
\* the relay client's subscription, and leave connectivity, the client's URI
\* and key, the configuration and the address book unchanged.
C15_SubscribeIndependent ==
    [][ /\ (pc = "prompt") => (ENABLED CmdSubscribe /\ ENABLED CmdUnsubscribe)
        /\ (pc = "prompt" /\ last'.op \in {"subscribe", "unsubscribe"}) =>
             /\ last'.fn = last'.op
             /\ last'.res \in {"Ok", "RelayError"}
             /\ last'.res = "RelayError" => subscribed' = subscribed
             /\ UNCHANGED << conn, client, cfgFile, book, bookStore, bookPath, holders >>
      ]_vars

\* `subscribe` succeeded while disconnected, and the session is still
\* disconnected
C15_Witness ==
    /\ pc = "report"
    /\ last.op = "subscribe"
    /\ last.res = "Ok"
    /\ subscribed
    /\ conn = "disconnected"
    /\ client = None

-----------------------------------------------------------------------------
(* contacts                                                                 *)

\* C16: `contacts` with no subcommand leaves the address book, in memory and
\* persisted, as it was and succeeds; it prints one line per contact, and
\* the message that the book is empty exactly when the book holds no contact,
\* so something is always printed.
C16_ListNeverMutates ==
    [][ ContactsStep("list") =>
          /\ book' = book
          /\ bookStore' = bookStore
          /\ last'.res = "Ok"
          /\ last'.lines = Len(book)
          /\ (last'.out = "empty_book") <=> (book = << >>)
          /\ (last'.out = "contacts") <=> (book # << >>) ]_vars

\* `contacts` on an empty book printed the message and no contact line
C16_Witness ==
    /\ pc = "report"
    /\ last.op = "contacts"
    /\ last.cargs.sub = "list"
    /\ last.res = "Ok"
    /\ last.out = "empty_book"
    /\ last.lines = 0
    /\ book = << >>

-----------------------------------------------------------------------------
(* do_config                                                                *)

\* the record do_config starts from: the persisted one, or the default
Loaded(file) == IF ConfigExists(file) THEN Unwrap(file) ELSE DefaultConfig

\* the field holds the option's value if the option is given, else what was loaded
OptionOrLoaded(option, loaded) == IF IsSome(option) THEN Unwrap(option) ELSE loaded

\* the four fields no keypair generation touches follow their options
PlainFieldsFollowOptions(r, a, l) ==
    /\ r.wallet713_data_path = OptionOrLoaded(a.data_path, l.wallet713_data_path)
    /\ r.grinbox_uri = OptionOrLoaded(a.uri, l.grinbox_uri)
    /\ r.grin_node_uri = OptionOrLoaded(a.node_uri, l.grin_node_uri)
    /\ r.grin_node_secret =
         IF IsSome(a.node_secret) THEN Some(Unwrap(a.node_secret)) ELSE l.grin_node_secret

\* do_config returned a record and that record is the persisted one
ReturnedIsPersisted ==
    /\ IsSome(last'.returned)
    /\ cfgFile' = last'.returned

\* a `config` line failed: the error is returned, no record is returned or shown
ConfigFailureReported ==
    (last'.op = "config" /\ last'.res # "Ok") =>
      /\ last'.res = "IoError"
      /\ last'.returned = None
      /\ last'.out = "none"

\* C17 as stated: on success the persisted record is the returned one, in
\* which every field holds its option's value if the option is given and the
\* loaded value otherwise (for the private key: the loaded or, where keys are
\* generated, the generated one); on failure the error is returned and no
\* record.
C17_Original ==
    [][ ConfigStep =>
          /\ last'.res = "Ok" =>
               /\ ReturnedIsPersisted
               /\ PlainFieldsFollowOptions(Unwrap(last'.returned), last'.args,
                                           Loaded(cfgFile))
               /\ Unwrap(last'.returned).grinbox_private_key \in
                    IF IsSome(last'.args.private_key)
                    THEN { Unwrap(last'.args.private_key) }
                    ELSE IF last'.generated
                         THEN GenKeys
                         ELSE { Loaded(cfgFile).grinbox_private_key }
          /\ ConfigFailureReported ]_vars

\* C17 amended: on success the persisted record is the returned one; data
\* path, URI, node URI and node secret hold their option's value if given and
\* the loaded value otherwise; the relay private key is the freshly generated
\* one whenever no record was persisted or --generate-keys is given, whatever
\* --private-key says, and otherwise follows --private-key like the others; on
\* failure the error is returned and no record.
C17_ReturnedIsPersisted ==
    [][ ConfigStep =>
          /\ last'.res = "Ok" =>
               /\ ReturnedIsPersisted
               /\ PlainFieldsFollowOptions(Unwrap(last'.returned), last'.args,
                                           Loaded(cfgFile))
               /\ last'.generated <=>
                    (~ConfigExists(cfgFile) \/ last'.args.generate_keys)
               /\ Unwrap(last'.returned).grinbox_private_key \in
                    IF last'.generated
                    THEN GenKeys
                    ELSE { OptionOrLoaded(last'.args.private_key,
                                          Loaded(cfgFile).grinbox_private_key) }
          /\ ConfigFailureReported ]_vars

\* `config --uri "" --node-uri n1` alone has been written back and returned
C17_Witness ==
    /\ pc = "report"
    /\ last.op = "config"
    /\ last.res = "Ok"
    /\ last.args = [ NoArgs EXCEPT !.uri = Some(""), !.node_uri = Some("n1") ]
    /\ IsSome(last.returned)
    /\ cfgFile = last.returned
    /\ Unwrap(cfgFile).grinbox_uri = ""
    /\ Unwrap(cfgFile).grin_node_uri = "n1"

-----------------------------------------------------------------------------
(* listen                                                                   *)

\* the persisted record has what `listen` needs
Listenable(file) ==
    /\ ConfigExists(file)
    /\ PersistedKey(file) # ""
    /\ PersistedUri(file) # ""

\* C18: `listen` invokes start_client only when a record is persisted whose
\* private key and URI are both non-empty, and then with the URI and key of
\* the record persisted at that moment; otherwise start_client is not invoked
\* and connectivity is unchanged, the failure being ConfigNotFound without a
\* record, ConfigMissingKeys for an empty key (also with an empty URI),
\* ConfigMissingValue for an empty URI alone, and LoadConfig for a record
\* that cannot be read.
C18_ListenUsesPersisted ==
    [][ ListenStep =>
          IF last'.fn = "start_client"
          THEN /\ Listenable(cfgFile)
               /\ last'.start = Some([ uri |-> PersistedUri(cfgFile),
                                       key |-> PersistedKey(cfgFile) ])
               /\ last'.res = "Ok" => (conn' = "connected" /\ client' = last'.start)
               /\ last'.res # "Ok" => (conn' = conn /\ client' = client)
          ELSE /\ last'.fn = "none"
               /\ last'.start = None
               /\ conn' = conn
               /\ client' = client
               /\ last'.res =
                    IF ~ConfigExists(cfgFile) THEN "ConfigNotFound"
                    ELSE IF last'.res = "LoadConfig" THEN "LoadConfig"
                    ELSE IF PersistedKey(cfgFile) = "" THEN "ConfigMissingKeys"
                    ELSE "ConfigMissingValue"
               /\ last'.res = "ConfigMissingValue" => PersistedUri(cfgFile) = "" ]_vars

\* after `config --private-key K1`, `listen` started the client with K1, not
\* with the key generated at startup
C18_Witness ==
    /\ pc = "report"
    /\ last.op = "listen"
    /\ last.res = "Ok"
    /\ last.start = Some([ uri |-> "u0", key |-> "K1" ])
    /\ client = last.start
    /\ conn = "connected"

-----------------------------------------------------------------------------
(* config and the keys                                                      *)

\* C19: when do_config succeeds with --private-key K given and either
\* --generate-keys given or no record persisted, a keypair is generated and
\* the persisted private key is the generated key, not K.
C19_GeneratedKeyWins ==
    [][ (/\ ConfigStep
         /\ last'.res = "Ok"
         /\ IsSome(last'.args.private_key)
         /\ last'.args.generate_keys \/ ~ConfigExists(cfgFile))
          => /\ last'.generated
             /\ ConfigExists(cfgFile')
             /\ PersistedKey(cfgFile') \in GenKeys
             /\ PersistedKey(cfgFile') # Unwrap(last'.args.private_key) ]_vars

\* `config --private-key K1 --generate-keys` has persisted a generated key
C19_Witness ==
    /\ pc = "report"
    /\ last.op = "config"
    /\ last.res = "Ok"
    /\ last.args.private_key = Some("K1")
    /\ last.args.generate_keys
    /\ last.generated
    /\ PersistedKey(cfgFile) \in GenKeys

\* this step processed a `config` line
ConfigLineStep == pc = "prompt" /\ pc' = "report" /\ last'.op = "config"

\* this step processed a `listen` that started the relay client, or a `stop`
ListenOrStopStep ==
    /\ pc = "prompt"
    /\ pc' = "report"
    /\ \/ last'.op = "listen" /\ last'.res = "Ok"
       \/ last'.op = "stop"

\* C20: a `config` line leaves connectivity, the running relay client with
\* its URI and key, the subscription and the address book as they were; the
\* relay client changes only when a `listen` succeeds, on `stop`, or when
\* the process starts or ends.
C20_ConfigLeavesSession ==
    [][ /\ ConfigLineStep =>
             UNCHANGED << conn, client, subscribed, book, bookStore, bookPath, holders >>
        /\ (client' # client \/ conn' # conn) =>
             \/ ListenOrStopStep
             \/ pc \in Dead
             \/ pc' \in Dead ]_vars

\* after `config` changed the key, the client still listens with the key it
\* was started with, which is not the persisted one
C20_Witness ==
    /\ pc = "report"
    /\ last.op = "config"
    /\ last.res = "Ok"
    /\ conn = "connected"
    /\ IsSome(client)
    /\ ConfigExists(cfgFile)
    /\ Unwrap(client).key # PersistedKey(cfgFile)

=============================================================================
